---------------------------- MODULE Spec2Model ----------------------------
(***************************************************************************)
(* OpenPlasma circuits: the off-chain withdrawal's apply step              *)
(* (data_structs/offchain_withdrawal.rs) and the deposit circuit with its  *)
(* batched composition (deposit_circuit.rs).                               *)
(*                                                                         *)
(* Field elements are naturals below FieldOrder.  A Poseidon digest is     *)
(* modelled symbolically, as the term of its inputs (a sequence of         *)
(* naturals): the hash is assumed collision free, which is the contract    *)
(* the code consumes it under.  A scalar s used as a hash input is the     *)
(* one-element digest <<s>>.                                               *)
(***************************************************************************)
EXTENDS Integers, Naturals, Sequences, FiniteSets, TLC

VARIABLES
    accounts,         \* tree.accounts: account id -> [pubkey, nonce, balance]
    accounts_tree,    \* tree.accounts_tree: the stored Merkle nodes, level -> index -> digest
    overflow_checks,  \* whether the build panics on integer overflow (debug) or wraps (release)
    last,             \* the most recent update_tree_and_record_state call: the request, the
                      \* outcome, the AccountState returned, the tree before it, the request
                      \* object after it, and whether it replayed the request the call
                      \* before it had applied
    circuit,          \* the DepositBatchCircuit being synthesized
    pc,               \* position of synthesize
    cs,               \* the constraint system: public inputs and whether every constraint holds
    prev_hash,        \* synthesize's running accumulator hash
    prev_root,        \* synthesize's running account root
    new_hash,         \* the allocated declared new accumulator hash
    new_root,         \* the allocated declared new account root
    idx,              \* index of the next deposit of the queue
    wd,               \* an OffchainWithdrawal that is signed and verified
    signed,           \* the fields and the secret key wd.sign was made from by sign
    verdict,          \* the verify_signature call just made on wd: the key and the outcome
    threads,          \* each thread's request, position in its call, and what it captured
    holder,           \* the thread holding the exclusive borrow of the tree (0: none)
    calls             \* number of calls the threads have started

wvars == <<accounts, accounts_tree, overflow_checks, last>>
dvars == <<circuit, pc, cs, prev_hash, prev_root, new_hash, new_root, idx>>
svars == <<wd, signed, verdict>>
cvars == <<threads, holder, calls>>
vars == <<accounts, accounts_tree, overflow_checks, last,
          circuit, pc, cs, prev_hash, prev_root, new_hash, new_root, idx,
          wd, signed, verdict, threads, holder, calls>>

---------------------------------------------------------------------------
(* Bounds and parameters *)

\* width of usize in the model (the code runs with 32 or 64)
UsizeBits == 2

\* largest amount a withdrawal request carries in the model
MaxAmount == 1

\* longest deposit queue of a batch in the model
MaxBatch == 2

\* depth of the accounts tree (account_depth)
AccountDepth == 1

UsizeModulus == 2 ^ UsizeBits

MaxUsize == UsizeModulus - 1

\* the scalar field is wider than usize, as bn256::Fr (254 bits) is wider than 64
FieldOrder == 2 ^ (UsizeBits + 2) - 3

NumAccounts == 2 ^ AccountDepth

AccountIds == 0 .. (NumAccounts - 1)

---------------------------------------------------------------------------
(* Collaborators: field conversions, Poseidon, the accounts tree *)

usize_to_fr(n) == n % FieldOrder

fr_to_usize(x) == x % UsizeModulus

RECURSIVE Flatten(_)
Flatten(ss) == IF ss = <<>> THEN <<>> ELSE Head(ss) \o Flatten(Tail(ss))

\* poseidon_hash(params, inputs)[0]: the digest is the term of its inputs
poseidon_hash(inputs) == Flatten(inputs)

\* the leaf content in slot order: pubkey x, pubkey y, nonce, balance
LeafContent(acc) == <<acc.pubkey[1], acc.pubkey[2], acc.nonce, acc.balance>>

LeafHash(content) ==
    poseidon_hash(<< <<content[1]>>, <<content[2]>>, <<content[3]>>, <<content[4]>> >>)

NodeHash(l, r) == poseidon_hash(<<l, r>>)

\* every level of the Merkle tree over the given leaf hashes, level 0 first
MerkleLevels(leaves) ==
    LET lv[k \in 0 .. AccountDepth] ==
            IF k = 0 THEN leaves
            ELSE [j \in 0 .. (2 ^ (AccountDepth - k) - 1) |->
                    NodeHash(lv[k - 1][2 * j], lv[k - 1][2 * j + 1])]
    IN lv

TreeRoot(nodes) == nodes[AccountDepth][0]

\* the stored nodes after leaf i is rehashed from its account and the root recomputed
RehashLeaf(nodes, accs, i) ==
    MerkleLevels([nodes[0] EXCEPT ![i] = LeafHash(LeafContent(accs[i]))])

\* AccountsTree::update_balance, as (accounts, accounts_tree)
update_balance(accs, nodes, i, balance) ==
    LET accs2 == [accs EXCEPT ![i].balance = balance]
    IN  <<accs2, RehashLeaf(nodes, accs2, i)>>

\* AccountsTree::update_account, as (accounts, accounts_tree)
update_account(accs, nodes, i, pubkey, nonce) ==
    LET accs2 == [accs EXCEPT ![i].pubkey = pubkey, ![i].nonce = nonce]
    IN  <<accs2, RehashLeaf(nodes, accs2, i)>>

\* bit k (from 1, little endian) of leaf position i
IndexBit(i, k) == (i \div (2 ^ (k - 1))) % 2

\* the sibling hashes of leaf i, leaf level first
get_leaf_path(nodes, i) ==
    [k \in 1 .. AccountDepth |->
        LET j == i \div (2 ^ (k - 1))
        IN  nodes[k - 1][IF j % 2 = 0 THEN j + 1 ELSE j - 1]]

get_leaf_indices(i) == [k \in 1 .. AccountDepth |-> IndexBit(i, k)]

\* the root a leaf hash authenticates to along a path
RECURSIVE RootFromPath(_, _, _, _)
RootFromPath(h, path, indices, k) ==
    IF k > Len(path) THEN h
    ELSE RootFromPath(IF indices[k] = 0 THEN NodeHash(h, path[k])
                                        ELSE NodeHash(path[k], h),
                      path, indices, k + 1)

---------------------------------------------------------------------------
(* OffchainWithdrawal: the object, its digest and its signature.  An EdDSA
   signature is modelled symbolically, as the term of what it was made from: the
   scheme is assumed unforgeable, so a signature verifies only under the public
   key of the secret key that made it, for the message it was made for. *)

\* Option<T>: None, Some(x)
None == <<>>

Some(x) == <<x>>

\* the key of account i at genesis
GenesisKey(i) == <<i + 1, i + 2>>

\* number of bytes of the digest that are signed
NUM_BYTES_TO_SIGN == 31

\* FixedGenerators::SpendingKeyGenerator
SpendingKeyGenerator == "SpendingKeyGenerator"

\* secret key sk belongs to account sk - 1
SecretKeys == 1 .. NumAccounts

PublicKeyOf(sk) == GenesisKey(sk - 1)

PublicKeys == {PublicKeyOf(sk) : sk \in SecretKeys}

\* values thread_rng can hand to one signing
RngValues == {0, 1}

\* mutant: the nonce does not enter the digest
hash_withdrawal_NoNonce(w) ==
    poseidon_hash(<< <<usize_to_fr(w.account_id)>>, <<usize_to_fr(w.amount)>> >>)

\* OffchainWithdrawal::hash: the digest of account id, amount and nonce
hash_withdrawal(w) ==
    poseidon_hash(<< <<usize_to_fr(w.account_id)>>, <<usize_to_fr(w.amount)>>,
                     <<usize_to_fr(w.nonce)>> >>)

\* fr_to_bytes_le: the first n bytes of the little-endian encoding of a field
\* element; each entry of a digest's term is one byte of the element, and the
\* bytes beyond the term are 0
fr_to_bytes_le(fr, n) == [k \in 1 .. n |-> IF k <= Len(fr) THEN fr[k] ELSE 0]

\* PrivateKey::sign_raw_message
sign_raw_message(sk, msg, rnd, generator, max_message_size) ==
    [key |-> sk, msg |-> msg, rnd |-> rnd, generator |-> generator]

\* PublicKey::verify_for_raw_message
verify_for_raw_message(pk, msg, sig, generator, max_message_size) ==
    /\ Len(msg) <= max_message_size
    /\ sig.key \in SecretKeys
    /\ PublicKeyOf(sig.key) = pk
    /\ sig.msg = msg
    /\ sig.generator = generator

\* a signature no secret key of the model made
ForgedSignature ==
    [key |-> 0, msg |-> <<>>, rnd |-> 0, generator |-> SpendingKeyGenerator]

\* the bytes sign and verify_signature hand to the signature scheme
HashBytes(w) == fr_to_bytes_le(hash_withdrawal(w), NUM_BYTES_TO_SIGN)

SignedFields(w) == <<w.account_id, w.amount, w.nonce>>

\* a request as its account's owner signs it; a request for no account is unsigned
SignedByOwner(w) ==
    [account_id |-> w.account_id, amount |-> w.amount, nonce |-> w.nonce,
     sign |-> IF w.account_id \in AccountIds
              THEN Some(sign_raw_message(w.account_id + 1, HashBytes(w), 0,
                                         SpendingKeyGenerator, NUM_BYTES_TO_SIGN))
              ELSE None]

\* the request nonces tried against an account whose nonce is cur: the extremes of
\* usize, the nonce already used, the next one and one that skips ahead
RequestNonces(cur) ==
    {0, MaxUsize} \cup {n \in 0 .. MaxUsize : n \in cur .. (cur + 2)}

\* the requests a caller may hand to update_tree_and_record_state; account id
\* NumAccounts is no leaf
Withdrawals(accs) ==
    {SignedByOwner(w) :
        w \in {r \in [account_id : 0 .. NumAccounts, amount : 0 .. MaxAmount,
                      nonce : 0 .. MaxUsize] :
                  r.nonce \in RequestNonces(IF r.account_id \in AccountIds
                                            THEN fr_to_usize(accs[r.account_id].nonce)
                                            ELSE 0)}}

\* self.nonce - 1 on usize: [overflowed, value]
NonceMinusOne(nonce) ==
    IF nonce = 0 THEN [overflow |-> TRUE, value |-> MaxUsize]
                 ELSE [overflow |-> FALSE, value |-> nonce - 1]

\* the assertions of update_tree_and_record_state in program order: "ok" or the
\* first one that fails
Outcome(w, accs, checks) ==
    IF ~(w.account_id < NumAccounts) THEN "panic_account_id"
    ELSE IF ~(fr_to_usize(accs[w.account_id].balance) >= w.amount) THEN "panic_balance"
    ELSE IF NonceMinusOne(w.nonce).overflow /\ checks THEN "panic_overflow"
    ELSE IF ~(fr_to_usize(accs[w.account_id].nonce) = NonceMinusOne(w.nonce).value)
         THEN "panic_nonce"
    ELSE "ok"

\* mutant: the amount is never subtracted
NewBalance_NoSubtract(w, accs) ==
    usize_to_fr(fr_to_usize(accs[w.account_id].balance))

NewBalance(w, accs) ==
    usize_to_fr(fr_to_usize(accs[w.account_id].balance) - w.amount)

NewNonce(w) == usize_to_fr(w.nonce)

\* mutant: the new nonce is never written (update_account is not called)
UpdatedTree_NoNonce(w, accs, nodes) ==
    update_balance(accs, nodes, w.account_id, NewBalance(w, accs))

\* mutant: the new nonce is written to the account after account_id
UpdatedTree_WrongLeaf(w, accs, nodes) ==
    LET t1    == update_balance(accs, nodes, w.account_id, NewBalance(w, accs))
        other == (w.account_id + 1) % NumAccounts
    IN  update_account(t1[1], t1[2], other, t1[1][other].pubkey, NewNonce(w))

\* mutant: neither update reaches the tree
UpdatedTree_NoWrite(w, accs, nodes) == <<accs, nodes>>

\* the tree after the two updates, as (accounts, accounts_tree)
UpdatedTree(w, accs, nodes) ==
    LET t1 == update_balance(accs, nodes, w.account_id, NewBalance(w, accs))
    IN  update_account(t1[1], t1[2], w.account_id,
                       t1[1][w.account_id].pubkey, NewNonce(w))

\* mutant: the snapshot is taken after the mutation instead of before it
RecordedState_AfterUpdate(w, accs, nodes) ==
    LET t == UpdatedTree(w, accs, nodes)
    IN  [old_balance     |-> t[1][w.account_id].balance,
         new_balance     |-> NewBalance(w, accs),
         old_pubkey      |-> t[1][w.account_id].pubkey,
         new_pubkey      |-> t[1][w.account_id].pubkey,
         old_nonce       |-> t[1][w.account_id].nonce,
         new_nonce       |-> NewNonce(w),
         account_path    |-> get_leaf_path(t[2], w.account_id),
         account_indices |-> get_leaf_indices(w.account_id)]

\* the AccountState the call returns
RecordedState(w, accs, nodes) ==
    [old_balance     |-> accs[w.account_id].balance,
     new_balance     |-> NewBalance(w, accs),
     old_pubkey      |-> accs[w.account_id].pubkey,
     new_pubkey      |-> accs[w.account_id].pubkey,
     old_nonce       |-> accs[w.account_id].nonce,
     new_nonce       |-> NewNonce(w),
     account_path    |-> get_leaf_path(nodes, w.account_id),
     account_indices |-> get_leaf_indices(w.account_id)]

NoState == <<>>

update_tree_and_record_state(w) ==
    LET out == Outcome(w, accounts, overflow_checks)
        t   == UpdatedTree(w, accounts, accounts_tree)
    IN  /\ last' = [w             |-> w,
                    replay        |-> last.outcome = "ok" /\ last.w = w,
                    outcome       |-> out,
                    state         |-> IF out = "ok"
                                      THEN RecordedState(w, accounts, accounts_tree)
                                      ELSE NoState,
                    old_accounts  |-> accounts,
                    old_tree      |-> accounts_tree,
                    self_after    |-> w]
        /\ IF out = "ok"
           THEN /\ accounts' = t[1]
                /\ accounts_tree' = t[2]
           ELSE UNCHANGED <<accounts, accounts_tree>>
        /\ UNCHANGED overflow_checks
        /\ UNCHANGED dvars
        /\ UNCHANGED svars
        /\ UNCHANGED cvars

\* no withdrawal: the value of a withdrawal slot nothing has filled yet
NoWithdrawal == [account_id |-> -1, amount |-> 0, nonce |-> 0, sign |-> None]

NoCall == [w |-> NoWithdrawal, replay |-> FALSE, outcome |-> "none",
           state |-> NoState, old_accounts |-> <<>>, old_tree |-> <<>>,
           self_after |-> NoWithdrawal]

DepositIdle ==
    /\ circuit = <<>>
    /\ pc = "idle"
    /\ cs = <<>>
    /\ prev_hash = <<>>
    /\ prev_root = <<>>
    /\ new_hash = <<>>
    /\ new_root = <<>>
    /\ idx = 0

NoSigned == [fields |-> <<>>, by |-> 0]

NoVerdict == [pubkey |-> <<>>, outcome |-> "none"]

SignIdle ==
    /\ wd = [account_id |-> 0, amount |-> 0, nonce |-> 0, sign |-> None]
    /\ signed = NoSigned
    /\ verdict = NoVerdict

ConcurrentIdle ==
    /\ threads = <<>>
    /\ holder = 0
    /\ calls = 0

\* a tree whose accounts hold deposited balances and have not withdrawn yet
InitWithdraw ==
    /\ \E bal \in [AccountIds -> 0 .. (MaxAmount + 1)] :
          accounts = [i \in AccountIds |->
                         [pubkey |-> GenesisKey(i), nonce |-> 0,
                          balance |-> usize_to_fr(bal[i])]]
    /\ accounts_tree = MerkleLevels([i \in AccountIds |-> LeafHash(LeafContent(accounts[i]))])
    /\ overflow_checks \in BOOLEAN
    /\ last = NoCall
    /\ DepositIdle
    /\ SignIdle
    /\ ConcurrentIdle

NextWithdraw == \E w \in Withdrawals(accounts) : update_tree_and_record_state(w)

SpecWithdraw == InitWithdraw /\ [][NextWithdraw]_vars

---------------------------------------------------------------------------
(* OffchainWithdrawal::sign and verify_signature *)

sign(sk, rnd) ==
    /\ wd' = [wd EXCEPT !.sign =
                 Some(sign_raw_message(sk, HashBytes(wd), rnd, SpendingKeyGenerator,
                                       NUM_BYTES_TO_SIGN))]
    /\ signed' = [fields |-> SignedFields(wd), by |-> sk]
    /\ verdict' = NoVerdict
    /\ UNCHANGED <<wvars, dvars, cvars>>

\* mutant: a missing signature is reported as an invalid one
VerifyOutcome_NoUnwrap(w, pk) ==
    IF w.sign = None THEN "false"
    ELSE IF verify_for_raw_message(pk, HashBytes(w), w.sign[1], SpendingKeyGenerator,
                                   NUM_BYTES_TO_SIGN)
         THEN "true" ELSE "false"

\* what verify_signature does: the unwrap of the missing signature panics,
\* otherwise the scheme's verdict is returned
VerifyOutcome(w, pk) ==
    IF w.sign = None THEN "panic"
    ELSE IF verify_for_raw_message(pk, HashBytes(w), w.sign[1], SpendingKeyGenerator,
                                   NUM_BYTES_TO_SIGN)
         THEN "true" ELSE "false"

verify_signature(pk) ==
    /\ verdict' = [pubkey |-> pk, outcome |-> VerifyOutcome(wd, pk)]
    /\ UNCHANGED <<wd, signed>>
    /\ UNCHANGED <<wvars, dvars, cvars>>

\* the fields of the withdrawal are public: one of them is assigned another value
SetField(f, v) ==
    /\ wd[f] # v
    /\ wd' = [wd EXCEPT ![f] = v]
    /\ verdict' = NoVerdict
    /\ UNCHANGED signed
    /\ UNCHANGED <<wvars, dvars, cvars>>

\* a signature that sign did not make is attached
AttachSignature ==
    /\ wd' = [wd EXCEPT !.sign = Some(ForgedSignature)]
    /\ signed' = NoSigned
    /\ verdict' = NoVerdict
    /\ UNCHANGED <<wvars, dvars, cvars>>

InitSign ==
    /\ \E id \in AccountIds, am \in 0 .. MaxAmount, n \in 0 .. MaxUsize :
          wd = [account_id |-> id, amount |-> am, nonce |-> n, sign |-> None]
    /\ signed = NoSigned
    /\ verdict = NoVerdict
    /\ accounts = [i \in AccountIds |->
                      [pubkey |-> GenesisKey(i), nonce |-> 0, balance |-> 0]]
    /\ accounts_tree = MerkleLevels([i \in AccountIds |-> LeafHash(LeafContent(accounts[i]))])
    /\ overflow_checks = TRUE
    /\ last = NoCall
    /\ DepositIdle
    /\ ConcurrentIdle

NextSign ==
    \/ \E sk \in SecretKeys, rnd \in RngValues : sign(sk, rnd)
    \/ \E pk \in PublicKeys : verify_signature(pk)
    \/ \E id \in AccountIds : SetField("account_id", id)
    \/ \E am \in 0 .. MaxAmount : SetField("amount", am)
    \/ \E n \in 0 .. MaxUsize : SetField("nonce", n)
    \/ AttachSignature

SpecSign == InitSign /\ [][NextSign]_vars

---------------------------------------------------------------------------
(* Callers of update_tree_and_record_state that share one tree.  The call takes
   tree: &mut AccountsTree, an exclusive borrow, so callers on different threads
   reach the tree through a lock that one of them holds for the whole call. *)

\* number of calls the threads start in the model
MaxCalls == 3

Threads == {1, 2}

IdleThread ==
    [pc |-> "idle", w |-> NoWithdrawal, state |-> NoState,
     root_before |-> <<>>, root_after |-> <<>>]

\* the requests a thread prepares from the tree it sees: the next nonce of an account
Requests(accs) ==
    {SignedByOwner([account_id |-> id, amount |-> am,
                    nonce |-> (fr_to_usize(accs[id].nonce) + 1) % UsizeModulus]) :
        id \in AccountIds, am \in 0 .. MaxAmount}

\* a thread builds its request
Prepare(t, w) ==
    /\ threads[t].pc = "idle"
    /\ calls < MaxCalls
    /\ calls' = calls + 1
    /\ threads' = [threads EXCEPT ![t] = [IdleThread EXCEPT !.pc = "ready", !.w = w]]
    /\ UNCHANGED <<holder, wvars, dvars, svars>>

\* mutant: the tree is borrowed while another caller holds it
CanEnter_Shared == TRUE

\* the exclusive borrow of the tree can be taken
CanEnter == holder = 0

\* the call starts: the thread takes the exclusive borrow
Enter(t) ==
    /\ threads[t].pc = "ready"
    /\ CanEnter
    /\ holder' = t
    /\ threads' = [threads EXCEPT ![t].pc = "entered"]
    /\ UNCHANGED <<calls, wvars, dvars, svars>>

\* the three assertions, and the reads of the pre-state, path and indices
CheckAndCapture(t) ==
    /\ threads[t].pc = "entered"
    /\ LET w   == threads[t].w
           out == Outcome(w, accounts, overflow_checks)
       IN  IF out = "ok"
           THEN /\ threads' = [threads EXCEPT
                                  ![t].pc = "captured",
                                  ![t].state = RecordedState(w, accounts, accounts_tree)]
                /\ UNCHANGED holder
           ELSE /\ threads' = [threads EXCEPT ![t].pc = "panicked"]
                /\ holder' = IF holder = t THEN 0 ELSE holder
    /\ UNCHANGED <<calls, wvars, dvars, svars>>

\* tree.update_balance with the balance computed from the captured one
WriteBalance(t) ==
    /\ threads[t].pc = "captured"
    /\ LET t1 == update_balance(accounts, accounts_tree, threads[t].w.account_id,
                                threads[t].state.new_balance)
       IN  /\ accounts' = t1[1]
           /\ accounts_tree' = t1[2]
    /\ threads' = [threads EXCEPT ![t].pc = "balance_written",
                                  ![t].root_before = TreeRoot(accounts_tree)]
    /\ UNCHANGED <<holder, calls, overflow_checks, last, dvars, svars>>

\* tree.update_account with the stored key and the new nonce; the call returns
\* and the borrow ends
WriteAccount(t) ==
    /\ threads[t].pc = "balance_written"
    /\ LET id == threads[t].w.account_id
           t2 == update_account(accounts, accounts_tree, id, accounts[id].pubkey,
                                threads[t].state.new_nonce)
       IN  /\ accounts' = t2[1]
           /\ accounts_tree' = t2[2]
           /\ threads' = [threads EXCEPT ![t].pc = "returned",
                                         ![t].root_after = TreeRoot(t2[2])]
    /\ holder' = IF holder = t THEN 0 ELSE holder
    /\ UNCHANGED <<calls, overflow_checks, last, dvars, svars>>

\* the thread drops the result of its call
Finish(t) ==
    /\ threads[t].pc \in {"returned", "panicked"}
    /\ threads' = [threads EXCEPT ![t] = IdleThread]
    /\ UNCHANGED <<holder, calls, wvars, dvars, svars>>

\* the tree the threads start from: every account holds MaxAmount + 1
ConcurrentTree0 ==
    [i \in AccountIds |->
        [pubkey |-> GenesisKey(i), nonce |-> 0, balance |-> usize_to_fr(MaxAmount + 1)]]

InitConcurrent ==
    /\ threads = [t \in Threads |-> IdleThread]
    /\ holder = 0
    /\ calls = 0
    /\ accounts = ConcurrentTree0
    /\ accounts_tree = MerkleLevels([i \in AccountIds |-> LeafHash(LeafContent(accounts[i]))])
    /\ overflow_checks \in BOOLEAN
    /\ last = NoCall
    /\ DepositIdle
    /\ SignIdle

NextConcurrent ==
    \E t \in Threads :
       \/ \E w \in Requests(accounts) : Prepare(t, w)
       \/ Enter(t)
       \/ CheckAndCapture(t)
       \/ WriteBalance(t)
       \/ WriteAccount(t)
       \/ Finish(t)

SpecConcurrent == InitConcurrent /\ [][NextConcurrent]_vars

---------------------------------------------------------------------------
(* AccountCircuit and check_decomposition_le, as process_deposit consumes them *)

\* AccountCircuit::new: the allocated leaves (slots: pubkey x, pubkey y, nonce,
\* balance), path and index bits of one leaf transition
AccountCircuitNew(st) ==
    [old_leaf_alloc |-> <<st.old_pubkey[1], st.old_pubkey[2], st.old_nonce, st.old_balance>>,
     new_leaf_alloc |-> <<st.new_pubkey[1], st.new_pubkey[2], st.new_nonce, st.new_balance>>,
     path_alloc     |-> st.account_path,
     indices_alloc  |-> st.account_indices]

\* verify_old_root: the old leaf authenticates to old_root along the path
verify_old_root(ac, old_root) ==
    RootFromPath(LeafHash(ac.old_leaf_alloc), ac.path_alloc, ac.indices_alloc, 1) = old_root

\* calc_new_root: the root of the new leaf along the same path
calc_new_root(ac) ==
    RootFromPath(LeafHash(ac.new_leaf_alloc), ac.path_alloc, ac.indices_alloc, 1)

RECURSIVE ComposeLe(_, _)
ComposeLe(bits, k) ==
    IF k > Len(bits) THEN 0 ELSE bits[k] * 2 ^ (k - 1) + ComposeLe(bits, k + 1)

\* check_decomposition_le: the number is the little-endian composition of the bits
check_decomposition_le(num, bits) == num = ComposeLe(bits, 1) % FieldOrder

---------------------------------------------------------------------------
(* DepositCircuit::process_deposit *)

\* mutant: the amount does not enter the accumulator hash
AccumHash_NoAmount(old_hash, d) ==
    poseidon_hash(<<old_hash, <<d.pubkey[1]>>, <<d.pubkey[2]>>, <<d.account_id>>>>)

\* mutant: a deposit of nothing leaves the accumulator hash as it was
AccumHash_SkipZero(old_hash, d) ==
    IF d.amount = 0 THEN old_hash
    ELSE poseidon_hash(<<old_hash, <<d.pubkey[1]>>, <<d.pubkey[2]>>, <<d.account_id>>,
                         <<d.amount>>>>)

\* "calculate new accum hash"
AccumHash(old_hash, d) ==
    poseidon_hash(<<old_hash, <<d.pubkey[1]>>, <<d.pubkey[2]>>, <<d.account_id>>,
                    <<d.amount>>>>)

\* mutant: "enforce balance update" is left out
StepConstraints_NoBalance(d, old_root) ==
    LET ac == AccountCircuitNew(d.account_state)
    IN  [pubkey_x   |-> d.pubkey[1] = ac.new_leaf_alloc[1],
         pubkey_y   |-> d.pubkey[2] = ac.new_leaf_alloc[2],
         account_id |-> check_decomposition_le(d.account_id, ac.indices_alloc),
         amount     |-> TRUE,
         nonce      |-> ac.old_leaf_alloc[3] = ac.new_leaf_alloc[3],
         old_root   |-> verify_old_root(ac, old_root)]

\* mutant: "enforce nonce equal" is left out
StepConstraints_NoNonce(d, old_root) ==
    LET ac == AccountCircuitNew(d.account_state)
    IN  [pubkey_x   |-> d.pubkey[1] = ac.new_leaf_alloc[1],
         pubkey_y   |-> d.pubkey[2] = ac.new_leaf_alloc[2],
         account_id |-> check_decomposition_le(d.account_id, ac.indices_alloc),
         amount     |-> (ac.old_leaf_alloc[4] + d.amount) % FieldOrder = ac.new_leaf_alloc[4],
         nonce      |-> TRUE,
         old_root   |-> verify_old_root(ac, old_root)]

\* the constraints one deposit step enforces, by name, each with whether the
\* assignment satisfies it
StepConstraints(d, old_root) ==
    LET ac == AccountCircuitNew(d.account_state)
    IN  [pubkey_x   |-> d.pubkey[1] = ac.new_leaf_alloc[1],
         pubkey_y   |-> d.pubkey[2] = ac.new_leaf_alloc[2],
         account_id |-> check_decomposition_le(d.account_id, ac.indices_alloc),
         amount     |-> (ac.old_leaf_alloc[4] + d.amount) % FieldOrder = ac.new_leaf_alloc[4],
         nonce      |-> ac.old_leaf_alloc[3] = ac.new_leaf_alloc[3],
         old_root   |-> verify_old_root(ac, old_root)]

\* process_deposit: the step's outputs, whether its constraints hold, and the
\* public inputs it adds to the constraint system (none)
process_deposit(d, old_hash, old_root) ==
    LET c == StepConstraints(d, old_root)
    IN  [hash   |-> AccumHash(old_hash, d),
         root   |-> calc_new_root(AccountCircuitNew(d.account_state)),
         ok     |-> \A n \in DOMAIN c : c[n],
         inputs |-> <<>>]

---------------------------------------------------------------------------
(* DepositBatchCircuit::synthesize *)

\* mutant: the new root is made a public input before the old root
PublicInputs_RootsSwapped(c) ==
    << [name |-> "old accum hash", value |-> c.old_accum_hash],
       [name |-> "new accum hash", value |-> c.new_accum_hash],
       [name |-> "new root",       value |-> c.new_account_root],
       [name |-> "old root",       value |-> c.old_account_root] >>

\* the four alloc + inputize pairs, in program order
PublicInputs(c) ==
    << [name |-> "old accum hash", value |-> c.old_accum_hash],
       [name |-> "new accum hash", value |-> c.new_accum_hash],
       [name |-> "old root",       value |-> c.old_account_root],
       [name |-> "new root",       value |-> c.new_account_root] >>

\* mutant: the new accumulator hash equivalence is not enforced
FinalConstraints_NoHash(ph, pr, nh, nr) == pr = nr

\* mutant: the new root equivalence is not enforced
FinalConstraints_NoRoot(ph, pr, nh, nr) == ph = nh

\* "enforce new accum hash equivalence" and "enforce new root equivalence"
FinalConstraints(ph, pr, nh, nr) == ph = nh /\ pr = nr

\* the loop over the queue as a fold: the running [hash, root] after the deposits
\* from position k on, and whether every step's constraints held
RECURSIVE FoldDeposits(_, _, _, _)
FoldDeposits(queue, k, hash, root) ==
    IF k > Len(queue) THEN [hash |-> hash, root |-> root, ok |-> TRUE]
    ELSE LET r    == process_deposit(queue[k], hash, root)
             rest == FoldDeposits(queue, k + 1, r.hash, r.root)
         IN  [hash |-> rest.hash, root |-> rest.root, ok |-> r.ok /\ rest.ok]

SynthAssert ==
    /\ pc = "assert"
    /\ pc' = IF circuit.deposit_batch = Len(circuit.deposit_queue) THEN "alloc" ELSE "panic"
    /\ UNCHANGED <<circuit, cs, prev_hash, prev_root, new_hash, new_root, idx>>
    /\ UNCHANGED wvars
    /\ UNCHANGED svars
    /\ UNCHANGED cvars

SynthAllocInputs ==
    /\ pc = "alloc"
    /\ cs' = [inputs |-> PublicInputs(circuit), satisfied |-> TRUE]
    /\ prev_hash' = circuit.old_accum_hash
    /\ new_hash' = circuit.new_accum_hash
    /\ prev_root' = circuit.old_account_root
    /\ new_root' = circuit.new_account_root
    /\ idx' = 1
    /\ pc' = "loop"
    /\ UNCHANGED circuit
    /\ UNCHANGED wvars
    /\ UNCHANGED svars
    /\ UNCHANGED cvars

SynthProcessDeposit ==
    /\ pc = "loop"
    /\ idx <= Len(circuit.deposit_queue)
    /\ LET r == process_deposit(circuit.deposit_queue[idx], prev_hash, prev_root)
       IN  /\ prev_hash' = r.hash
           /\ prev_root' = r.root
           /\ cs' = [inputs    |-> cs.inputs \o r.inputs,
                     satisfied |-> cs.satisfied /\ r.ok]
    /\ idx' = idx + 1
    /\ UNCHANGED <<circuit, pc, new_hash, new_root>>
    /\ UNCHANGED wvars
    /\ UNCHANGED svars
    /\ UNCHANGED cvars

SynthEnforceFinal ==
    /\ pc = "loop"
    /\ idx > Len(circuit.deposit_queue)
    /\ cs' = [cs EXCEPT !.satisfied =
                 cs.satisfied /\ FinalConstraints(prev_hash, prev_root, new_hash, new_root)]
    /\ pc' = "done"
    /\ UNCHANGED <<circuit, prev_hash, prev_root, new_hash, new_root, idx>>
    /\ UNCHANGED wvars
    /\ UNCHANGED svars
    /\ UNCHANGED cvars

---------------------------------------------------------------------------
(* The circuits handed to synthesize: the operator's witness generation, and the
   ways a witness or a declared boundary value can be wrong *)

\* the tree the batch starts from: account i has received i and withdrawn i times
DepositTree0 ==
    [i \in AccountIds |-> [pubkey |-> GenesisKey(i), nonce |-> i, balance |-> i]]

\* amounts: nothing, one unit, and the amount that wraps a non-zero balance
DepositAmounts == {0, 1, FieldOrder - 1}

DepositOps == [id : AccountIds, amount : DepositAmounts]

\* a key no account holds at genesis
OtherKey(k) == <<k[1] + NumAccounts + 1, k[2]>>

OtherDigest(h) == h \o <<0>>

\* the ways the operator's recording of one deposit can depart from crediting the
\* amount to the leaf: replacing the account's key, crediting one unit too many,
\* consuming a nonce
DeviationKinds == {"rekey", "credit", "nonce"}

NoDeviation == [kind |-> "none", pos |-> 0]

Deviations(n) ==
    {NoDeviation} \cup {[kind |-> kd, pos |-> k] : kd \in DeviationKinds, k \in 1 .. n}

\* the deposit queue the operator records for ops applied in order to a tree; the
\* deposit at position dev.pos departs as dev.kind says, and every later leaf,
\* path and root follows it
RECURSIVE BuildQueue(_, _, _, _, _)
BuildQueue(ops, k, accs, nodes, dev) ==
    IF k > Len(ops) THEN [queue |-> <<>>, root |-> TreeRoot(nodes)]
    ELSE LET id   == ops[k].id
             old  == accs[id]
             here == IF k = dev.pos THEN dev.kind ELSE "none"
             key  == IF here = "rekey" THEN OtherKey(old.pubkey) ELSE old.pubkey
             bal  == (old.balance + ops[k].amount
                         + (IF here = "credit" THEN 1 ELSE 0)) % FieldOrder
             non  == IF here = "nonce" THEN (old.nonce + 1) % FieldOrder ELSE old.nonce
             t1   == update_balance(accs, nodes, id, bal)
             t2   == update_account(t1[1], t1[2], id, key, non)
             d    == [account_state |->
                         [old_balance     |-> old.balance,
                          new_balance     |-> bal,
                          old_pubkey      |-> old.pubkey,
                          new_pubkey      |-> key,
                          old_nonce       |-> old.nonce,
                          new_nonce       |-> non,
                          account_path    |-> get_leaf_path(nodes, id),
                          account_indices |-> get_leaf_indices(id)],
                      pubkey     |-> key,
                      account_id |-> id,
                      amount     |-> ops[k].amount]
             rest == BuildQueue(ops, k + 1, t2[1], t2[2], dev)
         IN  [queue |-> <<d>> \o rest.queue, root |-> rest.root]

\* the accumulator hash the operator declares for a queue
RECURSIVE ChainHash(_, _, _)
ChainHash(queue, k, h) ==
    IF k > Len(queue) THEN h
    ELSE ChainHash(queue, k + 1,
                   poseidon_hash(<<h, <<queue[k].pubkey[1]>>, <<queue[k].pubkey[2]>>,
                                   <<queue[k].account_id>>, <<queue[k].amount>>>>))

\* the circuit of a batch as the operator builds it
BuiltCircuit(ops, dev) ==
    LET nodes == MerkleLevels([i \in AccountIds |-> LeafHash(LeafContent(DepositTree0[i]))])
        b     == BuildQueue(ops, 1, DepositTree0, nodes, dev)
    IN  [deposit_batch    |-> Len(ops),
         account_depth    |-> AccountDepth,
         deposit_queue    |-> b.queue,
         old_accum_hash   |-> <<0>>,
         new_accum_hash   |-> ChainHash(b.queue, 1, <<0>>),
         old_account_root |-> TreeRoot(nodes),
         new_account_root |-> b.root]

WitnessFaults ==
    {"new_balance", "new_nonce", "pubkey", "old_pubkey", "account_id", "path"}

DeclaredFaults ==
    {"old_accum_hash", "new_accum_hash", "old_account_root", "new_account_root",
     "deposit_batch"}

\* the single faults a circuit of n deposits can carry
Faults(n) ==
    {[kind |-> "none", pos |-> 0, value |-> 0]}
    \cup {[kind |-> f, pos |-> 0, value |-> 0] : f \in DeclaredFaults}
    \cup {[kind |-> f, pos |-> k, value |-> 0] : f \in WitnessFaults, k \in 1 .. n}
    \cup {[kind |-> "amount", pos |-> k, value |-> v] : k \in 1 .. n, v \in DepositAmounts}

FaultyDeposit(d, f) ==
    LET st == d.account_state
    IN  CASE f.kind = "amount"      -> [d EXCEPT !.amount = f.value]
          [] f.kind = "pubkey"      -> [d EXCEPT !.pubkey = OtherKey(d.pubkey)]
          [] f.kind = "account_id"  ->
                [d EXCEPT !.account_id = (d.account_id + NumAccounts) % FieldOrder]
          [] f.kind = "new_balance" ->
                [d EXCEPT !.account_state.new_balance = (st.new_balance + 1) % FieldOrder]
          [] f.kind = "new_nonce"   ->
                [d EXCEPT !.account_state.new_nonce = (st.new_nonce + 1) % FieldOrder]
          [] f.kind = "old_pubkey"  ->
                [d EXCEPT !.account_state.old_pubkey = OtherKey(st.old_pubkey)]
          [] f.kind = "path"        ->
                [d EXCEPT !.account_state.account_path =
                     [k \in 1 .. Len(st.account_path) |-> OtherDigest(st.account_path[k])]]

Faulty(c, f) ==
    CASE f.kind = "none"             -> c
      [] f.kind = "old_accum_hash"   -> [c EXCEPT !.old_accum_hash = OtherDigest(@)]
      [] f.kind = "new_accum_hash"   -> [c EXCEPT !.new_accum_hash = OtherDigest(@)]
      [] f.kind = "old_account_root" -> [c EXCEPT !.old_account_root = OtherDigest(@)]
      [] f.kind = "new_account_root" -> [c EXCEPT !.new_account_root = OtherDigest(@)]
      [] f.kind = "deposit_batch"    -> [c EXCEPT !.deposit_batch = @ + 1]
      [] OTHER -> [c EXCEPT !.deposit_queue[f.pos] = FaultyDeposit(@, f)]

OpSeqs == UNION {[1 .. n -> DepositOps] : n \in 0 .. MaxBatch}

InitDeposit ==
    /\ \E ops \in OpSeqs :
          \E dev \in Deviations(Len(ops)) :
             \E f \in Faults(Len(ops)) :
                /\ dev.kind \in {"credit", "nonce"} => f.kind = "none"
                /\ circuit = Faulty(BuiltCircuit(ops, dev), f)
    /\ pc = "assert"
    /\ cs = [inputs |-> <<>>, satisfied |-> TRUE]
    /\ prev_hash = <<>>
    /\ prev_root = <<>>
    /\ new_hash = <<>>
    /\ new_root = <<>>
    /\ idx = 0
    /\ accounts = DepositTree0
    /\ accounts_tree = MerkleLevels([i \in AccountIds |-> LeafHash(LeafContent(accounts[i]))])
    /\ overflow_checks = TRUE
    /\ last = NoCall
    /\ SignIdle
    /\ ConcurrentIdle

NextDeposit ==
    \/ SynthAssert
    \/ SynthAllocInputs
    \/ SynthProcessDeposit
    \/ SynthEnforceFinal

SpecDeposit == InitDeposit /\ [][NextDeposit]_vars

---------------------------------------------------------------------------
(* Claims about update_tree_and_record_state *)

Called == last.outcome # "none"

Applied == last.outcome = "ok"

\* the three preconditions as the specification states them, over the integers
ValidId(w) == w.account_id \in AccountIds

EnoughBalance(w, accs) == w.amount <= accs[w.account_id].balance

NextNonce(w, accs) == w.nonce = accs[w.account_id].nonce + 1

Preconditions(w, accs) ==
    ValidId(w) /\ EnoughBalance(w, accs) /\ NextNonce(w, accs)

TreeAsBeforeCall ==
    accounts = last.old_accounts /\ accounts_tree = last.old_tree

\* C1: a withdrawal whose account id is no leaf index, whose amount exceeds the
\* balance or whose nonce is not the account's nonce plus one is rejected, and the
\* tree is then exactly as before the call.
C1_RejectsInvalid ==
    (Called /\ ~Preconditions(last.w, last.old_accounts))
        => (~Applied /\ TreeAsBeforeCall)

\* What the code keeps of C1: every rejected call leaves the tree as it was, and a
\* build with overflow checks rejects every invalid request.
RejectedLeavesTree == (Called /\ ~Applied) => TreeAsBeforeCall

RejectsInvalidWhenChecked == overflow_checks => C1_RejectsInvalid

\* C2: a withdrawal that satisfies the preconditions is applied; the account then
\* holds its old balance minus the amount, the request's nonce (its old nonce plus
\* one) and its old public key.
C2_AppliedLeaf ==
    (Called /\ Preconditions(last.w, last.old_accounts))
        => LET id  == last.w.account_id
               old == last.old_accounts[id]
           IN  /\ Applied
               /\ accounts[id].balance = old.balance - last.w.amount
               /\ accounts[id].nonce = last.w.nonce
               /\ accounts[id].nonce = old.nonce + 1
               /\ accounts[id].pubkey = old.pubkey

C2_Witness ==
    Applied /\ Preconditions(last.w, last.old_accounts) /\ last.w.amount > 0

C4_NonceSequential ==
    [][\A a \in AccountIds :
          /\ accounts'[a].nonce >= accounts[a].nonce
          /\ (last'.outcome = "ok" /\ last'.w.account_id = a)
                => accounts'[a].nonce = accounts[a].nonce + 1]_wvars

\* What the code keeps of C4: the nonces are sequential in a build with overflow checks.
NonceSequentialWhenChecked ==
    [][overflow_checks =>
          \A a \in AccountIds :
             /\ accounts'[a].nonce >= accounts[a].nonce
             /\ (last'.outcome = "ok" /\ last'.w.account_id = a)
                   => accounts'[a].nonce = accounts[a].nonce + 1]_wvars

\* C5: the returned AccountState holds the leaf's content before and after the
\* mutation, and its path and indices authenticate the leaf at account_id against
\* the root before the call (old leaf) and the root after it (new leaf).
C5_RecordedState ==
    Applied =>
        LET id  == last.w.account_id
            s   == last.state
            old == last.old_accounts[id]
            new == accounts[id]
        IN  /\ s.old_balance = old.balance
            /\ s.old_nonce = old.nonce
            /\ s.old_pubkey = old.pubkey
            /\ s.new_balance = new.balance
            /\ s.new_nonce = new.nonce
            /\ s.new_pubkey = new.pubkey
            /\ \A k \in 1 .. AccountDepth : s.account_indices[k] = IndexBit(id, k)
            /\ RootFromPath(LeafHash(LeafContent(old)), s.account_path,
                            s.account_indices, 1) = TreeRoot(last.old_tree)
            /\ RootFromPath(LeafHash(LeafContent(new)), s.account_path,
                            s.account_indices, 1) = TreeRoot(accounts_tree)

C5_Witness == Applied /\ last.w.amount > 0 /\ last.w.account_id = NumAccounts - 1

\* C6: after an applied withdrawal with amount # 0 the root differs from the root
\* before the call, and the stored root is the root recomputed from the leaves.
C6_RootChanges ==
    /\ (Applied /\ last.w.amount # 0)
          => TreeRoot(accounts_tree) # TreeRoot(last.old_tree)
    /\ Applied
          => TreeRoot(accounts_tree)
                = TreeRoot(MerkleLevels([i \in AccountIds |->
                                            LeafHash(LeafContent(accounts[i]))]))

C6_Witness == Applied /\ last.w.amount # 0

---------------------------------------------------------------------------
(* Claims about the deposit circuits *)

Synthesized == pc = "done"

Queue == circuit.deposit_queue

\* the circuit with the amount of the deposit at position k replaced in the witness
WithAmount(c, k, v) == [c EXCEPT !.deposit_queue[k].amount = v]

\* whether the assignment a circuit carries satisfies every constraint synthesize
\* enforces
Satisfies(c) ==
    LET r == FoldDeposits(c.deposit_queue, 1, c.old_accum_hash, c.old_account_root)
    IN  r.ok /\ FinalConstraints(r.hash, r.root, c.new_accum_hash, c.new_account_root)

\* the ops and the key replacement a built circuit was recorded from
OpsOf(c) ==
    [k \in 1 .. Len(c.deposit_queue) |->
        [id |-> c.deposit_queue[k].account_id, amount |-> c.deposit_queue[k].amount]]

RekeyOf(c) ==
    LET ks == {k \in 1 .. Len(c.deposit_queue) :
                  c.deposit_queue[k].account_state.old_pubkey
                     # c.deposit_queue[k].account_state.new_pubkey}
    IN  IF ks = {} THEN NoDeviation
        ELSE [kind |-> "rekey", pos |-> CHOOSE k \in ks : TRUE]

\* the batch rebuilt with the amount at position k replaced: every leaf, path and
\* root follows the new amount
Rebuilt(c, k, v) == BuiltCircuit([OpsOf(c) EXCEPT ![k].amount = v], RekeyOf(c))

\* C7: the synthesized circuit is satisfied exactly when every step's constraints
\* hold and the fold of the steps from the declared old hash and root ends in the
\* declared new hash and root; and a satisfied circuit is no longer satisfied once
\* one deposit's amount is changed in the witness with the declared new hash kept,
\* whether the amount alone is changed or the leaves, paths and declared new root
\* are changed with it.
C7_BatchSatisfiable ==
    Synthesized =>
        LET r == FoldDeposits(Queue, 1, circuit.old_accum_hash, circuit.old_account_root)
        IN  /\ cs.satisfied <=> (/\ r.ok
                                 /\ r.hash = circuit.new_accum_hash
                                 /\ r.root = circuit.new_account_root)
            /\ cs.satisfied =>
                  \A k \in 1 .. Len(Queue) :
                     \A v \in DepositAmounts \ {Queue[k].amount} :
                        /\ ~Satisfies(WithAmount(circuit, k, v))
                        /\ Satisfies(Rebuilt(circuit, k, v))
                        /\ ~Satisfies([Rebuilt(circuit, k, v) EXCEPT
                                          !.new_accum_hash = circuit.new_accum_hash])

C7_Witness == Synthesized /\ cs.satisfied /\ Len(Queue) >= 2

\* the fields of a deposit that enter the accumulator hash
HashedFields(d) == <<d.pubkey, d.account_id, d.amount>>

RECURSIVE HashFold(_, _, _)
HashFold(queue, k, h) ==
    IF k > Len(queue) THEN h ELSE HashFold(queue, k + 1, AccumHash(h, queue[k]))

Swapped(queue, i, j) == [queue EXCEPT ![i] = queue[j], ![j] = queue[i]]

Without(queue, k) == SubSeq(queue, 1, k - 1) \o SubSeq(queue, k + 1, Len(queue))

\* C8: the final accumulator hash of a queue differs from that of the queue with
\* two deposits that differ in public key, account id or amount swapped, and from
\* that of the queue with one deposit left out.
C8_OrderSensitive ==
    Synthesized =>
        /\ \A i, j \in 1 .. Len(Queue) :
              (i < j /\ HashedFields(Queue[i]) # HashedFields(Queue[j]))
                 => HashFold(Swapped(Queue, i, j), 1, circuit.old_accum_hash) # prev_hash
        /\ \A k \in 1 .. Len(Queue) :
              HashFold(Without(Queue, k), 1, circuit.old_accum_hash) # prev_hash

\* two deposits to one account that differ in the amount alone
C8_Witness ==
    /\ Synthesized /\ cs.satisfied
    /\ \E i, j \in 1 .. Len(Queue) :
          /\ i < j
          /\ Queue[i].pubkey = Queue[j].pubkey
          /\ Queue[i].account_id = Queue[j].account_id
          /\ Queue[i].amount # Queue[j].amount

\* C9: in a satisfied circuit every step's claimed public key is the key of the
\* leaf's new content, and the key of the leaf's old content is the key of its new
\* content.
C9_KeyUnchanged ==
    (Synthesized /\ cs.satisfied) =>
        \A k \in 1 .. Len(Queue) :
           LET ac == AccountCircuitNew(Queue[k].account_state)
           IN  /\ Queue[k].pubkey = <<ac.new_leaf_alloc[1], ac.new_leaf_alloc[2]>>
               /\ <<ac.old_leaf_alloc[1], ac.old_leaf_alloc[2]>>
                     = <<ac.new_leaf_alloc[1], ac.new_leaf_alloc[2]>>

\* What the code keeps of C9: the claimed key is the key of the leaf's new content.
ClaimedKeyIsNewLeafKey ==
    (Synthesized /\ cs.satisfied) =>
        \A k \in 1 .. Len(Queue) :
           Queue[k].pubkey = Queue[k].account_state.new_pubkey

\* C10: once the inputs are allocated the constraint system has exactly four
\* public inputs, the old accumulator hash, the new accumulator hash, the old root
\* and the new root in this order, and no deposit step adds one.
C10_FourPublicInputs ==
    (pc \in {"loop", "done"}) =>
        /\ Len(cs.inputs) = 4
        /\ [k \in 1 .. 4 |-> cs.inputs[k].name]
              = <<"old accum hash", "new accum hash", "old root", "new root">>
        /\ [k \in 1 .. 4 |-> cs.inputs[k].value]
              = <<circuit.old_accum_hash, circuit.new_accum_hash,
                  circuit.old_account_root, circuit.new_account_root>>

C10_Witness ==
    /\ Synthesized /\ Len(Queue) >= 2
    /\ circuit.old_account_root # circuit.new_account_root

\* the leaves of the deposit step at position k, as its constraints see them
StepLeaves(k) == AccountCircuitNew(Queue[k].account_state)

\* C14: in a satisfied circuit every step's new balance is its old balance plus
\* the claimed amount (slot 3 of the old leaf plus the amount equals slot 3 of the
\* new leaf, in the field), and the accumulator hash the run computed is the hash
\* chained over those same claimed amounts.
C14_BalanceCredited ==
    (Synthesized /\ cs.satisfied) =>
        /\ \A k \in 1 .. Len(Queue) :
              (StepLeaves(k).old_leaf_alloc[4] + Queue[k].amount) % FieldOrder
                 = StepLeaves(k).new_leaf_alloc[4]
        /\ prev_hash = ChainHash(Queue, 1, circuit.old_accum_hash)

C14_Witness ==
    /\ Synthesized /\ cs.satisfied
    /\ \E k \in 1 .. Len(Queue) :
          /\ Queue[k].amount = 1
          /\ StepLeaves(k).new_leaf_alloc[4] = StepLeaves(k).old_leaf_alloc[4] + 1

\* C15: in a satisfied circuit no step's old balance plus amount wraps around the
\* field order, so no step's new balance is smaller than its old balance.
C15_NoWrap ==
    (Synthesized /\ cs.satisfied) =>
        \A k \in 1 .. Len(Queue) :
           /\ StepLeaves(k).old_leaf_alloc[4] + Queue[k].amount < FieldOrder
           /\ StepLeaves(k).new_leaf_alloc[4] >= StepLeaves(k).old_leaf_alloc[4]

\* C16: in a satisfied circuit every step's old nonce equals its new nonce, so the
\* nonce of every account after the batch is its nonce before the batch.
C16_NonceKept ==
    (Synthesized /\ cs.satisfied) =>
        \A k \in 1 .. Len(Queue) :
           StepLeaves(k).old_leaf_alloc[3] = StepLeaves(k).new_leaf_alloc[3]

\* two deposits to the account that has withdrawn before
C16_Witness ==
    /\ Synthesized /\ cs.satisfied
    /\ \E i, j \in 1 .. Len(Queue) :
          /\ i < j
          /\ Queue[i].account_id = Queue[j].account_id
          /\ StepLeaves(i).old_leaf_alloc[3] # 0
          /\ StepLeaves(j).new_leaf_alloc[3] = StepLeaves(i).old_leaf_alloc[3]

\* C17: a deposit step whose amount is 0 outputs an accumulator hash different
\* from the one it was given, and when its constraints hold the leaf's balance is
\* unchanged.
C17_ZeroDepositAdvancesHash ==
    [][(/\ pc = "loop"
        /\ idx <= Len(Queue)
        /\ idx' = idx + 1
        /\ Queue[idx].amount = 0)
          => /\ prev_hash' # prev_hash
             /\ cs'.satisfied =>
                   StepLeaves(idx).new_leaf_alloc[4] = StepLeaves(idx).old_leaf_alloc[4]]_vars

C17_Witness ==
    /\ pc = "loop" /\ idx > 1 /\ cs.satisfied
    /\ Queue[idx - 1].amount = 0

\* C18: a circuit with deposit_batch 0 and an empty queue never fails the batch
\* assertion, runs no deposit step, and once synthesized is satisfied exactly when
\* the declared new hash is the declared old hash and the declared new root is
\* the declared old root.
C18_EmptyBatch ==
    (circuit.deposit_batch = 0 /\ Len(Queue) = 0) =>
        /\ pc \in {"assert", "alloc", "loop", "done"}
        /\ pc \in {"loop", "done"} => (idx = 1 /\ prev_hash = circuit.old_accum_hash
                                                /\ prev_root = circuit.old_account_root)
        /\ Synthesized =>
              (cs.satisfied <=> (/\ circuit.new_accum_hash = circuit.old_accum_hash
                                 /\ circuit.new_account_root = circuit.old_account_root))

C18_Witness ==
    /\ Synthesized /\ cs.satisfied
    /\ circuit.deposit_batch = 0 /\ Len(Queue) = 0

\* an empty batch whose declared hashes or roots differ is synthesized and rejected
C18_WitnessRejected ==
    /\ Synthesized /\ ~cs.satisfied
    /\ circuit.deposit_batch = 0 /\ Len(Queue) = 0

---------------------------------------------------------------------------
(* Claims about sign and verify_signature *)

Verified == verdict.outcome # "none"

\* wd carries the signature sign made, over the fields it had then
SignedBySign == wd.sign # None /\ signed.by \in SecretKeys

\* the fields of wd that differ from the fields that were signed
ChangedFields == {k \in 1 .. 3 : SignedFields(wd)[k] # signed.fields[k]}

\* C11: verify_signature with the public key of the secret key that signed
\* returns true when no field was changed since signing, and verify_signature
\* returns false, under every public key, when exactly one of account_id, amount
\* and nonce was changed since signing.
C11_SignVerify ==
    (Verified /\ SignedBySign) =>
        /\ (ChangedFields = {} /\ verdict.pubkey = PublicKeyOf(signed.by))
              => verdict.outcome = "true"
        /\ Cardinality(ChangedFields) = 1 => verdict.outcome = "false"

C11_Witness ==
    /\ Verified /\ SignedBySign
    /\ verdict.pubkey = PublicKeyOf(signed.by)
    /\ ChangedFields = {3}
    /\ verdict.outcome = "false"

C11_WitnessAccepted ==
    /\ Verified /\ SignedBySign
    /\ ChangedFields = {}
    /\ verdict.outcome = "true"

\* the signature wd carries is the one sign made with the secret key of pk over
\* the fields wd has now
ValidFor(pk) ==
    /\ SignedBySign
    /\ PublicKeyOf(signed.by) = pk
    /\ ChangedFields = {}

\* C12: verify_signature panics exactly when wd carries no signature, returns
\* false when wd carries a signature that is not valid for the key and the fields,
\* and a call of it changes neither the withdrawal nor the tree.
C12_VerifyTotal ==
    /\ [](Verified =>
            /\ verdict.outcome = "panic" <=> wd.sign = None
            /\ (wd.sign # None /\ ~ValidFor(verdict.pubkey)) => verdict.outcome = "false")
    /\ [][verdict'.outcome # "none"
            => UNCHANGED <<wd, accounts, accounts_tree>>]_vars

C12_Witness ==
    /\ Verified
    /\ wd.sign = Some(ForgedSignature)
    /\ verdict.outcome = "false"

C12_WitnessPanic == Verified /\ wd.sign = None /\ verdict.outcome = "panic"

---------------------------------------------------------------------------
(* Claims about callers that share one tree *)

\* C13: with each call holding the tree exclusively from its reads to its last
\* write, under every interleaving of the threads the path a call captured
\* authenticates the leaf's old content to the root the tree had just before the
\* call's first write, and the leaf's new content to the root the tree has just
\* after the call's last write.
C13_PathMatchesTransition ==
    \A t \in Threads :
       /\ threads[t].pc \in {"balance_written", "returned"} =>
             verify_old_root(AccountCircuitNew(threads[t].state), threads[t].root_before)
       /\ threads[t].pc = "returned" =>
             calc_new_root(AccountCircuitNew(threads[t].state)) = threads[t].root_after

\* a call returned on a tree that an earlier call had changed, while the other
\* thread waits with a request for the sibling leaf
C13_Witness ==
    \E t, u \in Threads :
       /\ threads[t].pc = "returned"
       /\ threads[u].pc = "ready"
       /\ threads[u].w.account_id # threads[t].w.account_id
       /\ threads[t].w.amount # 0
       /\ threads[t].root_before
             # TreeRoot(MerkleLevels([i \in AccountIds |->
                                        LeafHash(LeafContent(ConcurrentTree0[i]))]))

---------------------------------------------------------------------------
(* Claims about what update_tree_and_record_state leaves alone *)

\* C19: a call that is applied changes the account and the stored leaf at
\* account_id only: every other account and every other stored leaf is as before
\* the call, the number of accounts is as before, and the withdrawal object
\* (account_id, amount, nonce, signature) is as it was handed in.
C19_Frame ==
    Applied =>
        /\ DOMAIN accounts = DOMAIN last.old_accounts
        /\ \A a \in DOMAIN accounts :
              a # last.w.account_id =>
                 /\ accounts[a] = last.old_accounts[a]
                 /\ accounts_tree[0][a] = last.old_tree[0][a]
        /\ last.self_after = last.w

\* a signed request with a non-zero amount was applied next to an account that
\* holds a balance
C19_Witness ==
    /\ Applied
    /\ last.w.amount # 0
    /\ last.w.sign # None
    /\ \E a \in DOMAIN accounts :
          a # last.w.account_id /\ accounts[a].balance # 0

\* C20: a request with nonce 0 is never applied: the call is rejected and the
\* tree is as before the call, whatever nonce the account has reached.
C20_NonceZeroRejected ==
    (Called /\ last.w.nonce = 0) => (~Applied /\ TreeAsBeforeCall)

\* What the code keeps of C20: with overflow checks a request with nonce 0 panics
\* on the subtraction and the tree is as before the call.
NonceZeroRejectedWhenChecked ==
    (Called /\ last.w.nonce = 0 /\ overflow_checks) =>
        (last.outcome \in {"panic_account_id", "panic_balance", "panic_overflow"}
            /\ TreeAsBeforeCall)

=============================================================================
